---- MODULE Spec2Model ----
(***************************************************************************)
(* A model of jens/environments.py: the reconciliation of the declared     *)
(* environments (YAML files of the metadata directory) with the            *)
(* environment trees on disk and the cache of declaration digests.         *)
(*                                                                         *)
(* Strings the code takes apart (file and environment names) are sequences *)
(* of one-character strings.  A path below ENVIRONMENTSDIR or CLONEDIR is  *)
(* a sequence of segments, a segment a sequence of tokens.                 *)
(***************************************************************************)
EXTENDS Integers, Sequences, FiniteSets, TLC

VARIABLES
    metadir,              \* ENV_METADATADIR: file name -> text of the file, or ENOENT
    cache,                \* CACHEDIR/environments: name -> content of the hash file
    dirs,                 \* directories below ENVIRONMENTSDIR
    links,                \* symlinks below ENVIRONMENTSDIR: link name -> target
    files,                \* regular files below ENVIRONMENTSDIR (environment.conf)
    inventory,            \* the inventory passed to refresh_environments
    repositories_deltas,  \* the upstream deltas passed to refresh_environments
    DIRECTORY_ENVIRONMENTS, \* settings.DIRECTORY_ENVIRONMENTS
    pc,                   \* where refresh_environments stands
    delta,                \* the local `delta` of refresh_environments
    todo,                 \* what the running for loop has not visited yet
    lease,                \* the seconds last passed to lock.renew
    hist,                 \* what happened in this pass and the one before (history)
    probe                 \* one function called on its own: its arguments, its return

vars == <<metadir, cache, dirs, links, files, inventory, repositories_deltas,
          DIRECTORY_ENVIRONMENTS, pc, delta, todo, lease, hist, probe>>

\* No function is called on its own.
NoProbe == [fn |-> "none"]

---------------------------------------------------------------------------
(* Bounds of the model.                                                    *)

\* passes of refresh_environments in a behaviour
MaxPasses == 2
\* calls that fail for an outside reason, and kills of the process
MaxFaults == 1
\* environments of a class and upstream repositories in SpecLease
MaxCount == 3

---------------------------------------------------------------------------
(* Characters, names and the three regular expressions.                    *)

NL == "\n"
Yaml == <<".", "y", "a", "m", "l">>
\* \w of a byte string: [a-zA-Z0-9_]
WordChars == {"a", "b", "y", "m", "l", "1", "_"}

\* `$` matches at the end of the string and before a newline that ends it.
BeforeDollar(s) ==
    IF Len(s) > 0 /\ s[Len(s)] = NL THEN SubSeq(s, 1, Len(s) - 1) ELSE s

EndsWith(s, suffix) ==
    /\ Len(s) >= Len(suffix)
    /\ SubSeq(s, Len(s) - Len(suffix) + 1, Len(s)) = suffix

\* re.match(r"^\w+$", environment) is not None
MatchWord(environment) ==
    LET core == BeforeDollar(environment)
    IN  /\ Len(core) > 0
        /\ \A i \in 1..Len(core) : core[i] \in WordChars

\* re.match("^.+?\.yaml$", x): one or more characters other than a newline,
\* then ".yaml", then the end of the string or the newline that ends it.
MatchYaml(x) ==
    \E core \in {x, BeforeDollar(x)} :
        /\ EndsWith(core, Yaml)
        /\ Len(core) > Len(Yaml)
        /\ \A i \in 1..(Len(core) - Len(Yaml)) : core[i] # NL

\* re.sub("\.yaml$", "", x)
SubYaml(x) ==
    IF EndsWith(x, Yaml) THEN SubSeq(x, 1, Len(x) - Len(Yaml))
    ELSE IF EndsWith(BeforeDollar(x), Yaml)
         THEN SubSeq(x, 1, Len(x) - Len(Yaml) - 1) \o <<NL>>
         ELSE x

\* settings.ENV_METADATADIR + "/%s.yaml" % environment
DefinitionPath(environment) == environment \o Yaml

\* what a directory holds where there is no file: a text (metadata) or the
\* content of a hash file (cache)
ENOENT == "ENOENT"
NoFile == <<"ENOENT">>

listdir(directory, none) == {f \in DOMAIN directory : directory[f] # none}

get_names_of_declared_environments(md) ==
    {SubYaml(x) : x \in {f \in listdir(md, ENOENT) : MatchYaml(f)}}

---------------------------------------------------------------------------
(* Declarations.  The text of a file is one of a few sample documents.     *)
(*   v1         default: master / notifications: ops                       *)
(*   v2         default: qa / notifications: ops /                         *)
(*              overrides: {modules: {m1: rel2}, common: {site: rel2}}     *)
(*   optin      notifications: ops / overrides: {modules: {m1: rel2}}      *)
(*   optinhg    notifications: ops / overrides: {hostgroups: {h1: rel2}}   *)
(*   bare       notifications: ops                                         *)
(*   nonotif    default: master                                            *)
(*   nullover   default: master / notifications: ops / overrides: ~        *)
(*   nulldef    default: ~ / notifications: ops                            *)
(*   nulldefc   default: ~ / notifications: ops /                          *)
(*              overrides: {common: {site: rel2, hieradata: rel2}}         *)
(*   empty      (an empty file: yaml.load gives None)                      *)
(*   garbled    (not YAML: yaml.load raises YAMLError)                     *)
(***************************************************************************)

Texts == {"v1", "v2", "optin", "optinhg", "bare", "nonotif", "nullover", "nulldef",
          "nulldefc", "empty", "garbled"}

None == "None"
NoOverrides == [null |-> TRUE, parts |-> <<>>]
Overrides(parts) == [null |-> FALSE, parts |-> parts]

\* A parsed mapping: the keys it has, and the values of `default` and `overrides`.
Mapping(keys, default, overrides) ==
    [keys |-> keys, default |-> default, overrides |-> overrides]

\* yaml.load(open(path, 'r')) on a file with this text
yaml_load(text) ==
    CASE text = "v1" ->
           [exc |-> "", none |-> FALSE,
            doc |-> Mapping({"default", "notifications"}, "master", NoOverrides)]
      [] text = "v2" ->
           [exc |-> "", none |-> FALSE,
            doc |-> Mapping({"default", "notifications", "overrides"}, "qa",
                            Overrides([modules |-> [m1 |-> "rel2"],
                                       common |-> [site |-> "rel2"]]))]
      [] text = "optin" ->
           [exc |-> "", none |-> FALSE,
            doc |-> Mapping({"notifications", "overrides"}, None,
                            Overrides([modules |-> [m1 |-> "rel2"]]))]
      [] text = "optinhg" ->
           [exc |-> "", none |-> FALSE,
            doc |-> Mapping({"notifications", "overrides"}, None,
                            Overrides([hostgroups |-> [h1 |-> "rel2"]]))]
      [] text = "bare" ->
           [exc |-> "", none |-> FALSE,
            doc |-> Mapping({"notifications"}, None, NoOverrides)]
      [] text = "nulldefc" ->
           [exc |-> "", none |-> FALSE,
            doc |-> Mapping({"default", "notifications", "overrides"}, None,
                            Overrides([common |-> [site |-> "rel2",
                                                   hieradata |-> "rel2"]]))]
      [] text = "nonotif" ->
           [exc |-> "", none |-> FALSE,
            doc |-> Mapping({"default"}, "master", NoOverrides)]
      [] text = "nullover" ->
           [exc |-> "", none |-> FALSE,
            doc |-> Mapping({"default", "notifications", "overrides"}, "master",
                            NoOverrides)]
      [] text = "nulldef" ->
           [exc |-> "", none |-> FALSE,
            doc |-> Mapping({"default", "notifications"}, None, NoOverrides)]
      [] text = "empty" ->
           [exc |-> "", none |-> TRUE, doc |-> Mapping({}, None, NoOverrides)]
      [] OTHER ->
           [exc |-> "YAMLError", none |-> FALSE, doc |-> Mapping({}, None, NoOverrides)]

Raised(exc) == [exc |-> exc, definition |-> Mapping({}, None, NoOverrides)]

\* read_environment_definition(settings, environment); ioerror: open() fails
\* for a reason other than the file missing.
read_environment_definition(md, environment, ioerror) ==
    LET path == DefinitionPath(environment)
        loaded == yaml_load(md[path])
    IN  IF ioerror \/ path \notin DOMAIN md \/ md[path] = ENOENT
          THEN Raised("JensEnvironmentsError")                \* except IOError
        ELSE IF loaded.exc = "YAMLError"
          THEN Raised("JensEnvironmentsError")                \* except yaml.YAMLError
        ELSE IF loaded.none
          THEN Raised("TypeError")                            \* 'notifications' not in None
        ELSE IF "notifications" \notin loaded.doc.keys
          THEN Raised("JensEnvironmentsError")
        ELSE IF "overrides" \in loaded.doc.keys /\ loaded.doc.overrides.null
          THEN Raised("JensEnvironmentsError")
        ELSE [exc |-> "", definition |-> loaded.doc]

\* jens.git.hash_object(path): the digest of the bytes of the file
hash_object(md, path) ==
    IF path \in DOMAIN md /\ md[path] # ENOENT
    THEN [exc |-> "", digest |-> <<"sha1", md[path]>>]
    ELSE [exc |-> "JensGitError", digest |-> <<>>]

---------------------------------------------------------------------------
(* Paths.  A link name or a directory is a path below ENVIRONMENTSDIR, a    *)
(* target a path below CLONEDIR.                                            *)

\* "%s/%s" % (settings.ENVIRONMENTSDIR, environment)
env_basepath(environment) == <<environment>>

_generate_module_env_code_path(module, environment) ==
    <<environment, <<"modules">>, <<module>>>>

_generate_module_env_hieradata_path(module, environment) ==
    <<environment, <<"hieradata">>, <<"module_names">>, <<module>>>>

\* _generate_hostgroup_env_code_path without the hg_ prefix.
_generate_hostgroup_env_code_path_no_prefix(hostgroup, environment) ==
    <<environment, <<"hostgroups">>, <<hostgroup>>>>

_generate_hostgroup_env_code_path(hostgroup, environment) ==
    <<environment, <<"hostgroups">>, <<"hg_", hostgroup>>>>

_generate_hostgroup_env_hieradata_hostgroup_path(hostgroup, environment) ==
    <<environment, <<"hieradata">>, <<"hostgroups">>, <<hostgroup>>>>

_generate_hostgroup_env_hieradata_fqdns_path(hostgroup, environment) ==
    <<environment, <<"hieradata">>, <<"fqdns">>, <<hostgroup>>>>

\* jens.tools.refname_to_dirname(settings, branch): the directory of a ref
refname_to_dirname(branch) == <<"refdir", branch>>

\* _resolve_branch where the default of the declaration wins over an override.
_resolve_branch_default_wins(partition, element, definition) ==
    LET parts == definition.overrides.parts
        overridden == /\ "overrides" \in definition.keys
                      /\ partition \in DOMAIN parts
                      /\ element \in DOMAIN parts[partition]
        branch == IF "default" \in definition.keys THEN definition.default
                  ELSE IF overridden THEN parts[partition][element]
                  ELSE "master"
    IN  [branch |-> refname_to_dirname(branch), overridden |-> overridden]

\* _resolve_branch(settings, partition, element, definition)
_resolve_branch(partition, element, definition) ==
    LET parts == definition.overrides.parts
        overridden == /\ "overrides" \in definition.keys
                      /\ partition \in DOMAIN parts
                      /\ element \in DOMAIN parts[partition]
        branch == IF overridden THEN parts[partition][element]
                  ELSE IF "default" \in definition.keys THEN definition.default
                  ELSE "master"
    IN  [branch |-> refname_to_dirname(branch), overridden |-> overridden]

---------------------------------------------------------------------------
(* The calls a handler makes, in order.  `group` numbers the try block a    *)
(* call stands in: a JensEnvironmentsError leaves the block.                *)

Call(op, path, target, group) ==
    [op |-> op, path |-> path, target |-> target, group |-> group]

Parent(path) == SubSeq(path, 1, Len(path) - 1)

IsPrefix(p, q) == Len(p) <= Len(q) /\ SubSeq(q, 1, Len(p)) = p

Empty == <<>>

Disk == [dirs |-> dirs, links |-> links, files |-> files, cache |-> cache]

Occupied(st, path) ==
    path \in st.dirs \/ path \in DOMAIN st.links \/ path \in st.files

ParentIsDir(st, path) == Len(path) = 1 \/ Parent(path) \in st.dirs

Restrict(f, S) == [x \in S |-> f[x]]

\* One call on the disk `st`; `injected`: the call fails for a reason outside
\* the model (permissions, a full disk).  exc = "": it returned.
Syscall(st, md, call, injected) ==
    CASE call.op = "mkdir" ->                                   \* os.mkdir
           IF injected \/ Occupied(st, call.path) \/ ~ParentIsDir(st, call.path)
           THEN [st |-> st, exc |-> "OSError"]
           ELSE [st |-> [st EXCEPT !.dirs = @ \cup {call.path}], exc |-> ""]
      [] call.op = "symlink" ->                                 \* os.symlink
           IF injected \/ Occupied(st, call.path) \/ ~ParentIsDir(st, call.path)
           THEN [st |-> st, exc |-> "JensEnvironmentsError"]     \* except OSError
           ELSE [st |-> [st EXCEPT !.links = (call.path :> call.target) @@ @],
                 exc |-> ""]
      [] call.op = "unlink" ->                    \* if os.path.islink: os.unlink
           IF call.path \notin DOMAIN st.links
           THEN [st |-> st, exc |-> ""]
           ELSE IF injected
           THEN [st |-> st, exc |-> "OSError"]
           ELSE [st |-> [st EXCEPT !.links =
                            Restrict(@, DOMAIN @ \ {call.path})],
                 exc |-> ""]
      [] call.op = "rmtree" ->                                  \* shutil.rmtree
           IF injected \/ call.path \notin st.dirs
           THEN [st |-> st, exc |-> "OSError"]
           ELSE [st |-> [st EXCEPT
                    !.dirs = {d \in @ : ~IsPrefix(call.path, d)},
                    !.files = {f \in @ : ~IsPrefix(call.path, f)},
                    !.links = Restrict(@,
                        {l \in DOMAIN @ : ~IsPrefix(call.path, l)})],
                 exc |-> ""]
      [] call.op = "remove" ->                                  \* os.remove
           IF injected \/ st.cache[call.path[1]] = NoFile
           THEN [st |-> st, exc |-> "logged"]                    \* except OSError
           ELSE [st |-> [st EXCEPT !.cache[call.path[1]] = NoFile], exc |-> ""]
      [] call.op = "conf" ->                          \* open(conf_file_path, 'w')
           IF injected \/ call.path \in st.dirs \/ call.path \in DOMAIN st.links
                       \/ ~ParentIsDir(st, call.path)
           THEN [st |-> st, exc |-> "JensEnvironmentsError"]     \* except IOError
           ELSE [st |-> [st EXCEPT !.files = @ \cup {call.path}], exc |-> ""]
      [] call.op = "open_cache" ->          \* open(hash_cache_file, "w+")
           IF injected
           THEN [st |-> st, exc |-> "IOError"]
           ELSE [st |-> [st EXCEPT !.cache[call.path[1]] = Empty], exc |-> ""]
      [] call.op = "write_cache" ->    \* hash_object(...); write(); close()
           LET h == hash_object(md, DefinitionPath(call.path[1]))
           IN  IF h.exc # "" THEN [st |-> st, exc |-> h.exc]
               ELSE IF injected THEN [st |-> st, exc |-> "IOError"]
               ELSE [st |-> [st EXCEPT !.cache[call.path[1]] = h.digest],
                     exc |-> ""]
      [] OTHER ->                                     \* call.op = "raise"
           [st |-> st, exc |-> call.target[1][1]]

\* The calls from the i-th on.  `fault`: the index of the call that fails for
\* an outside reason (0: none).  `left`: the try block a JensEnvironmentsError
\* has left, whose other calls are skipped.  Returns the disk, the exception
\* that left the handler ("": none) and the calls that failed.
RECURSIVE Run(_, _, _, _, _, _, _)
Run(st, md, calls, i, fault, left, failed) ==
    IF i > Len(calls)
    THEN [st |-> st, exc |-> "", failed |-> failed]
    ELSE IF calls[i].group = left /\ left # 0
    THEN Run(st, md, calls, i + 1, fault, left, failed)
    ELSE LET r == Syscall(st, md, calls[i], i = fault)
         IN  IF r.exc = ""
               THEN Run(r.st, md, calls, i + 1, fault, left, failed)
             ELSE IF r.exc = "logged"
               THEN Run(r.st, md, calls, i + 1, fault, left, failed \cup {calls[i]})
             ELSE IF r.exc = "JensEnvironmentsError" /\ calls[i].group # 0
               THEN Run(r.st, md, calls, i + 1, fault, calls[i].group,
                        failed \cup {calls[i]})
             ELSE [st |-> r.st, exc |-> r.exc, failed |-> failed \cup {calls[i]}]

---------------------------------------------------------------------------
(* The handlers, as the calls they make.                                    *)

Modules == {"m1", "m2"}
Hostgroups == {"h1"}

\* Python iterates a set or the keys of a dict in an order of its own.
Orders(S) ==
    {o \in [1..Cardinality(S) -> S] : \A i, j \in DOMAIN o : o[i] = o[j] => i = j}

RECURSIVE Flatten(_)
Flatten(ss) == IF Len(ss) = 0 THEN <<>> ELSE Head(ss) \o Flatten(Tail(ss))

\* The link targets are below CLONEDIR; os.path.relpath only rewrites them
\* relative to the directory of the link.
_link_module(module, environment, definition, group) ==
    LET branch == _resolve_branch("modules", module, definition).branch
    IN  << Call("symlink", _generate_module_env_code_path(module, environment),
                <<<<"modules">>, <<module>>, branch, <<"code">>>>, group),
           Call("symlink", _generate_module_env_hieradata_path(module, environment),
                <<<<"modules">>, <<module>>, branch, <<"data">>>>, group) >>

_link_hostgroup(hostgroup, environment, definition, group) ==
    LET branch == _resolve_branch("hostgroups", hostgroup, definition).branch
    IN  << Call("symlink", _generate_hostgroup_env_code_path(hostgroup, environment),
                <<<<"hostgroups">>, <<hostgroup>>, branch, <<"code">>>>, group),
           Call("symlink",
                _generate_hostgroup_env_hieradata_hostgroup_path(hostgroup, environment),
                <<<<"hostgroups">>, <<hostgroup>>, branch, <<"data">>, <<"hostgroup">>>>,
                group),
           Call("symlink",
                _generate_hostgroup_env_hieradata_fqdns_path(hostgroup, environment),
                <<<<"hostgroups">>, <<hostgroup>>, branch, <<"data">>, <<"fqdns">>>>,
                group) >>

\* _unlink_module that leaves the link of the data directory.
_unlink_module_code_only(module, environment) ==
    << Call("unlink", _generate_module_env_code_path(module, environment), <<>>, 0) >>

_unlink_module(module, environment) ==
    << Call("unlink", _generate_module_env_code_path(module, environment), <<>>, 0),
       Call("unlink", _generate_module_env_hieradata_path(module, environment), <<>>, 0) >>

_unlink_hostgroup(hostgroup, environment) ==
    << Call("unlink", _generate_hostgroup_env_code_path(hostgroup, environment), <<>>, 0),
       Call("unlink",
            _generate_hostgroup_env_hieradata_hostgroup_path(hostgroup, environment),
            <<>>, 0),
       Call("unlink",
            _generate_hostgroup_env_hieradata_fqdns_path(hostgroup, environment),
            <<>>, 0) >>

_link_site(environment, definition, group) ==
    LET branch == _resolve_branch("common", "site", definition).branch
    IN  << Call("symlink", <<environment, <<"site">>>>,
                <<<<"common">>, <<"site">>, branch, <<"code">>>>, group) >>

CommonHieradata == <<"environments", "hardware", "operatingsystems", "common.yaml">>

_link_common_hieradata(environment, definition, group) ==
    LET branch == _resolve_branch("common", "hieradata", definition).branch
    IN  [i \in 1..Len(CommonHieradata) |->
            Call("symlink", <<environment, <<"hieradata">>, <<CommonHieradata[i]>>>>,
                 <<<<"common">>, <<"hieradata">>, branch, <<"data">>,
                   <<CommonHieradata[i]>>>>, group)]

_add_configuration_file(environment, group) ==
    << Call("conf", <<environment, <<"environment.conf">>>>, <<>>, group) >>

\* _annotate_environment that opens the hash cache file and writes nothing.
_annotate_environment_no_write(environment) ==
    << Call("open_cache", <<environment>>, <<>>, 0) >>

_annotate_environment(environment) ==
    << Call("open_cache", <<environment>>, <<>>, 0),
       Call("write_cache", <<environment>>, <<>>, 0) >>

_remove_environment_annotation(environment) ==
    << Call("remove", <<environment>>, <<>>, 0) >>

\* _purge_deleted_environment that removes the cached hash before the tree.
_purge_deleted_environment_hash_first(environment) ==
    _remove_environment_annotation(environment)
    \o << Call("rmtree", env_basepath(environment), <<>>, 0) >>

_purge_deleted_environment(environment) ==
    << Call("rmtree", env_basepath(environment), <<>>, 0) >>
    \o _remove_environment_annotation(environment)

Raise(exc) == << Call("raise", <<>>, <<<<exc>>>>, 0) >>

\* The keys of definition['overrides'][partition]; a KeyError gives set().
Necessary(definition, partition) ==
    IF "overrides" \in definition.keys
       /\ partition \in DOMAIN definition.overrides.parts
    THEN DOMAIN definition.overrides.parts[partition]
    ELSE {}

\* _create_new_environment that links every module (hostgroup) of the
\* inventory, default or not.
Selected_everything(definition, partition, known) == known

\* The modules (hostgroups) _create_new_environment links.
Selected(definition, partition, known) ==
    IF "default" \notin definition.keys
    THEN known \cap Necessary(definition, partition)
    ELSE known

\* _create_new_environment(settings, environment, inventory).  A name or a
\* definition that is refused gives no call; `definition is None` (line 124)
\* is never reached, the read raises on None.
_create_new_environment(md, environment, inv, direnvs, ioerror, morder, horder) ==
    LET read == read_environment_definition(md, environment, ioerror)
        definition == read.definition
        base == env_basepath(environment)
    IN  IF ~MatchWord(environment) THEN <<>>
        ELSE IF read.exc = "JensEnvironmentsError" THEN <<>>
        ELSE IF read.exc # "" THEN Raise(read.exc)
        ELSE << Call("mkdir", base, <<>>, 0),
                Call("mkdir", base \o <<<<"modules">>>>, <<>>, 0),
                Call("mkdir", base \o <<<<"hostgroups">>>>, <<>>, 0),
                Call("mkdir", base \o <<<<"hieradata">>>>, <<>>, 0),
                Call("mkdir", base \o <<<<"hieradata">>, <<"module_names">>>>, <<>>, 0),
                Call("mkdir", base \o <<<<"hieradata">>, <<"hostgroups">>>>, <<>>, 0),
                Call("mkdir", base \o <<<<"hieradata">>, <<"fqdns">>>>, <<>>, 0) >>
             \o Flatten([i \in 1..Len(morder) |->
                    _link_module(morder[i], environment, definition, i)])
             \o Flatten([i \in 1..Len(horder) |->
                    _link_hostgroup(horder[i], environment, definition, 10 + i)])
             \o _link_site(environment, definition, 21)
             \o _link_common_hieradata(environment, definition, 22)
             \o (IF direnvs THEN _add_configuration_file(environment, 23) ELSE <<>>)
             \o _annotate_environment(environment)

\* The orders in which _create_new_environment may visit what it links.
CreateOrders(md, environment, inv, partition) ==
    LET read == read_environment_definition(md, environment, FALSE)
    IN  IF read.exc # "" THEN {<<>>}
        ELSE Orders(Selected(read.definition, partition, inv[partition]))

\* One round of the loop of _recreate_changed_environments.
_recreate_changed_environment(md, environment, inv, direnvs, ioerror, morder, horder) ==
    _purge_deleted_environment(environment)
    \o _create_new_environment(md, environment, inv, direnvs, ioerror, morder, horder)

\* One round of the loop of _refresh_notchanged_environments, after the read.
_refresh_notchanged_environment(environment, definition, mnew, mdel, hnew, hdel) ==
    LET nodefault == "default" \notin definition.keys \/ definition.default = None
    IN  (IF nodefault THEN <<>>
         ELSE Flatten([i \in 1..Len(mnew) |->
                  _link_module(mnew[i], environment, definition, i)]))
        \o Flatten([i \in 1..Len(mdel) |-> _unlink_module(mdel[i], environment)])
        \o (IF nodefault THEN <<>>
            ELSE Flatten([i \in 1..Len(hnew) |->
                     _link_hostgroup(hnew[i], environment, definition, 10 + i)]))
        \o Flatten([i \in 1..Len(hdel) |-> _unlink_hostgroup(hdel[i], environment)])

---------------------------------------------------------------------------
(* Python's float is the IEEE 754 double.  Every double the lease formula   *)
(* meets is a multiple of 2^-56 below 128: it is kept as the integer        *)
(* value * 2^56, in three limbs <<low, middle, high>> of 20 bits (the high  *)
(* limb takes the rest).  A product or a sum is exact in the limbs and then *)
(* rounded to 53 significant bits, to nearest, ties to even.                *)

Base == 2^20

Carry(x) ==
    LET l == x[1]
        m == x[2] + (l \div Base)
    IN  <<l % Base, m % Base, x[3] + (m \div Base)>>

RECURSIVE BitLength(_)
BitLength(n) == IF n = 0 THEN 0 ELSE 1 + BitLength(n \div 2)

Bits(x) ==
    IF x[3] > 0 THEN 40 + BitLength(x[3])
    ELSE IF x[2] > 0 THEN 20 + BitLength(x[2])
    ELSE BitLength(x[1])

\* to 53 significant bits; the bits dropped lie in the low limb
Round53(x) ==
    LET s == Bits(x) - 53
        q == x[1] \div (2^s)
        r == x[1] % (2^s)
        up == r > 2^(s - 1) \/ (r = 2^(s - 1) /\ q % 2 = 1)
    IN  IF s <= 0 THEN x
        ELSE Carry(<<(q + (IF up THEN 1 ELSE 0)) * 2^s, x[2], x[3]>>)

FloatAdd(x, y) == Round53(Carry(<<x[1] + y[1], x[2] + y[2], x[3] + y[3]>>))

\* n * x, n an int
FloatMul(n, x) == Round53(Carry(<<n * x[1], n * x[2], n * x[3]>>))

\* int(math.ceil(x))
CeilInt(x) ==
    (x[3] \div 2^16)
    + (IF x[3] % 2^16 # 0 \/ x[2] # 0 \/ x[1] # 0 THEN 1 ELSE 0)

\* the literals 0.1, 0.2, 0.3, 0.4
Float01 == <<629146, 629145, 6553>>
Float02 == <<209716, 209715, 13107>>
Float03 == <<838860, 838860, 19660>>
Float04 == <<419432, 419430, 26214>>

\* jens.tools.aggregate_deltas(repositories_deltas)
aggregate_deltas(deltas) ==
    [new |-> Cardinality(deltas.modules.new) + Cardinality(deltas.hostgroups.new),
     deleted |-> Cardinality(deltas.modules.deleted)
                 + Cardinality(deltas.hostgroups.deleted)]


\* The argument of lock.renew with the weight of a new environment for a
\* changed one.
RenewSeconds_changed_as_new(d, total_new, total_deleted) ==
    CeilInt(FloatAdd(FloatAdd(FloatAdd(
                FloatMul(Cardinality(d.new), Float03),
                FloatMul(Cardinality(d.changed), Float03)),
                FloatMul(Cardinality(d.notchanged),
                         FloatAdd(FloatMul(total_new, Float02),
                                  FloatMul(total_deleted, Float01)))),
                FloatMul(Cardinality(d.deleted), Float01))) + 2

\* The argument of lock.renew in refresh_environments.
RenewSeconds(d, total_new, total_deleted) ==
    CeilInt(FloatAdd(FloatAdd(FloatAdd(
                FloatMul(Cardinality(d.new), Float03),
                FloatMul(Cardinality(d.changed), Float04)),
                FloatMul(Cardinality(d.notchanged),
                         FloatAdd(FloatMul(total_new, Float02),
                                  FloatMul(total_deleted, Float01)))),
                FloatMul(Cardinality(d.deleted), Float01))) + 2

---------------------------------------------------------------------------
(* The delta.                                                               *)

NoDelta == [new |-> {}, changed |-> {}, notchanged |-> {}, deleted |-> {}]


\* _calculate_delta without the difference of line 399: every declared name
\* is taken for new.
_calculate_delta_every_declared_new(md, c) ==
    LET current_envs == listdir(c, NoFile)
        updated_envs == get_names_of_declared_environments(md)
        existing == updated_envs \cap current_envs
        new_hash(environment) == hash_object(md, DefinitionPath(environment))
    IN  IF \E environment \in existing : new_hash(environment).exc # ""
        THEN [exc |-> "JensGitError", delta |-> NoDelta]
        ELSE [exc |-> "",
              delta |->
                [new |-> updated_envs,
                 deleted |-> current_envs \ updated_envs,
                 notchanged |-> {environment \in existing :
                                   c[environment] = new_hash(environment).digest},
                 changed |-> {environment \in existing :
                                   c[environment] # new_hash(environment).digest}]]

\* _calculate_delta(settings): the delta, or the exception of hash_object
_calculate_delta(md, c) ==
    LET current_envs == listdir(c, NoFile)
        updated_envs == get_names_of_declared_environments(md)
        existing == updated_envs \cap current_envs
        new_hash(environment) == hash_object(md, DefinitionPath(environment))
    IN  IF \E environment \in existing : new_hash(environment).exc # ""
        THEN [exc |-> "JensGitError", delta |-> NoDelta]
        ELSE [exc |-> "",
              delta |->
                [new |-> updated_envs \ current_envs,
                 deleted |-> current_envs \ updated_envs,
                 notchanged |-> {environment \in existing :
                                   c[environment] = new_hash(environment).digest},
                 changed |-> {environment \in existing :
                                   c[environment] # new_hash(environment).digest}]]

---------------------------------------------------------------------------
(* refresh_environments.                                                    *)

\* The loops of refresh_environments with the recreation before the purge.
Phases_changed_before_deleted == <<"new", "changed", "deleted", "notchanged">>

\* The four loops of refresh_environments, in the order of lines 39-47.
Phases == <<"new", "deleted", "changed", "notchanged">>

PhaseAfter(phase) ==
    IF \E i \in 1..(Len(Phases) - 1) : Phases[i] = phase
    THEN Phases[(CHOOSE i \in 1..(Len(Phases) - 1) : Phases[i] = phase) + 1]
    ELSE "done"

InPhase == pc \in {Phases[i] : i \in DOMAIN Phases}

(* hist, the history of the behaviour:                                      *)
(*   passes    the passes begun; faults: the injected failures and kills    *)
(*   renewals  the calls of lock.renew in this pass                         *)
(*   injected  the injected failures of this pass                           *)
(*   handled   the environments whose round of a loop returned              *)
(*   skipped   those whose creation was refused (name, definition)          *)
(*   created   those _create_new_environment ran to its end for             *)
(*   partial   those of `created` with a link that failed                   *)
(*   failed    the failures of this pass, [env, op]: the call that failed,  *)
(*             "name" or "definition" for a refusal, or the exception that  *)
(*             the read let through                                         *)
(*   mutated   whether a call of this pass changed the disk                 *)
(*   same      whether this pass has the declarations and the inventory of  *)
(*             the pass before, and no upstream delta                       *)
(*   prev      how the pass before ended, and its sets                      *)
NewPass(h, end) ==
    [passes |-> h.passes + 1, faults |-> h.faults,
     renewals |-> 0, injected |-> 0, handled |-> {}, skipped |-> {},
     created |-> {}, partial |-> {}, failed |-> {}, mutated |-> FALSE,
     same |-> FALSE,
     prev |-> [end |-> end, skipped |-> h.skipped, created |-> h.created,
               partial |-> h.partial, failed |-> h.failed,
               injected |-> h.injected]]

FirstPass ==
    [passes |-> 1, faults |-> 0,
     renewals |-> 0, injected |-> 0, handled |-> {}, skipped |-> {},
     created |-> {}, partial |-> {}, failed |-> {}, mutated |-> FALSE,
     same |-> FALSE,
     prev |-> [end |-> "none", skipped |-> {}, created |-> {}, partial |-> {},
               failed |-> {}, injected |-> 0]]

\* delta = _calculate_delta(settings)
CalculateDelta ==
    /\ pc = "idle"
    /\ LET r == _calculate_delta(metadir, cache)
       IN  /\ delta' = r.delta
           /\ pc' = IF r.exc = "" THEN "renew" ELSE "raised"
    /\ UNCHANGED <<probe, metadir, cache, dirs, links, files, inventory,
                   repositories_deltas, DIRECTORY_ENVIRONMENTS, todo, lease, hist>>

\* lock.renew(...), and the first loop is entered
RenewLease ==
    /\ pc = "renew"
    /\ LET total == aggregate_deltas(repositories_deltas)
       IN  lease' = RenewSeconds(delta, total.new, total.deleted)
    /\ pc' = Phases[1]
    /\ todo' = delta[Phases[1]]
    /\ hist' = [hist EXCEPT !.renewals = @ + 1]
    /\ UNCHANGED <<probe, metadir, cache, dirs, links, files, inventory,
                   repositories_deltas, DIRECTORY_ENVIRONMENTS, delta>>

\* A loop has visited all its environments: the next loop is entered.
Advance ==
    /\ InPhase
    /\ todo = {}
    /\ pc' = PhaseAfter(pc)
    /\ todo' = IF PhaseAfter(pc) = "done" THEN {} ELSE delta[PhaseAfter(pc)]
    /\ UNCHANGED <<probe, metadir, cache, dirs, links, files, inventory,
                   repositories_deltas, DIRECTORY_ENVIRONMENTS, delta, lease, hist>>

\* Which call may fail for an outside reason (0: none), while faults are left:
\* the first call of each kind in each try block.
FaultChoices(calls) ==
    IF hist.faults < MaxFaults
    THEN {0} \cup {i \in 1..Len(calls) :
                     \A j \in 1..(i - 1) : \/ calls[j].op # calls[i].op
                                            \/ calls[j].group # calls[i].group}
    ELSE {0}
IoErrorChoices == IF hist.faults < MaxFaults THEN BOOLEAN ELSE {FALSE}

Event(environment, op) == [env |-> environment, op |-> op]

\* The calls of one round of a loop are made.  `refused`: why
\* _create_new_environment returns before its first call ("": it does not),
\* when the round gets that far.  `after`: where refresh_environments stands when
\* the round returns.
Round(environment, calls, fault, ioerror, refused, after) ==
    LET r == Run(Disk, metadir, calls, 1, fault, 0, {})
        sound == Run(Disk, metadir, calls, 1, 0, 0, {})
        hit == (IF fault > 0 THEN 1 ELSE 0) + (IF ioerror THEN 1 ELSE 0)
        events == {Event(environment, IF c.op = "raise" THEN c.target[1][1] ELSE c.op) :
                      c \in r.failed}
                  \cup (IF refused = "" \/ r.exc # "" THEN {}
                        ELSE {Event(environment, refused)})
        creates == pc \in {"new", "changed"} /\ refused = "" /\ r.exc = ""
    IN  /\ fault > 0 => r # sound
        /\ dirs' = r.st.dirs
        /\ links' = r.st.links
        /\ files' = r.st.files
        /\ cache' = r.st.cache
        /\ pc' = IF r.exc = "" THEN after ELSE "raised"
        /\ todo' = IF r.exc = "" /\ after = pc THEN todo \ {environment} ELSE todo
        /\ hist' = [hist EXCEPT
                      !.faults = @ + hit,
                      !.injected = @ + hit,
                      !.failed = @ \cup events,
                      !.skipped = @ \cup (IF refused # "" /\ r.exc = ""
                                             /\ pc \in {"new", "changed"}
                                          THEN {environment} ELSE {}),
                      !.created = @ \cup (IF creates THEN {environment} ELSE {}),
                      !.partial = @ \cup (IF creates /\ \E c \in r.failed : c.op = "symlink"
                                          THEN {environment} ELSE {}),
                      !.mutated = @ \/ r.st # Disk,
                      !.handled = @ \cup (IF r.exc = "" THEN {environment} ELSE {})]
        /\ UNCHANGED <<probe, metadir, inventory, repositories_deltas,
                       DIRECTORY_ENVIRONMENTS, delta, lease>>

\* Why _create_new_environment returns before its first call.
Refused(environment, ioerror) ==
    IF ~MatchWord(environment) THEN "name"
    ELSE IF read_environment_definition(metadir, environment, ioerror).exc
            = "JensEnvironmentsError" THEN "definition"
    ELSE ""

\* An injected failure of open() changes what the read gives.
IoErrorTells(environment, ioerror) ==
    ioerror => read_environment_definition(metadir, environment, FALSE).exc
               # "JensEnvironmentsError"

\* _create_new_environments: one round
CreateNew(environment) ==
    /\ pc = "new"
    /\ environment \in todo
    /\ \E ioerror \in IoErrorChoices,
          morder \in CreateOrders(metadir, environment, inventory, "modules"),
          horder \in CreateOrders(metadir, environment, inventory, "hostgroups") :
         LET calls == _create_new_environment(metadir, environment, inventory,
                          DIRECTORY_ENVIRONMENTS, ioerror, morder, horder)
         IN  /\ IoErrorTells(environment, ioerror) /\ (ioerror => MatchWord(environment))
             /\ \E fault \in FaultChoices(calls) :
                  /\ ~(ioerror /\ fault > 0 /\ hist.faults + 2 > MaxFaults)
                  /\ Round(environment, calls, fault, ioerror,
                           Refused(environment, ioerror), pc)

\* _purge_deleted_environments: one round
PurgeDeleted(environment) ==
    /\ pc = "deleted"
    /\ environment \in todo
    /\ \E fault \in FaultChoices(_purge_deleted_environment(environment)) :
         Round(environment, _purge_deleted_environment(environment), fault, FALSE, "", pc)

\* _recreate_changed_environments: one round
RecreateChanged(environment) ==
    /\ pc = "changed"
    /\ environment \in todo
    /\ \E ioerror \in IoErrorChoices,
          morder \in CreateOrders(metadir, environment, inventory, "modules"),
          horder \in CreateOrders(metadir, environment, inventory, "hostgroups") :
         LET calls == _recreate_changed_environment(metadir, environment, inventory,
                          DIRECTORY_ENVIRONMENTS, ioerror, morder, horder)
         IN  /\ IoErrorTells(environment, ioerror) /\ (ioerror => MatchWord(environment))
             /\ \E fault \in FaultChoices(calls) :
                  /\ ~(ioerror /\ fault > 0 /\ hist.faults + 2 > MaxFaults)
                  /\ Round(environment, calls, fault, ioerror,
                           Refused(environment, ioerror), pc)

\* _refresh_notchanged_environments: one round.  When the definition cannot
\* be read the function returns (line 57): the loop ends there.
RefreshNotchanged(environment) ==
    /\ pc = "notchanged"
    /\ environment \in todo
    /\ \E ioerror \in IoErrorChoices,
          mnew \in Orders(repositories_deltas.modules.new),
          mdel \in Orders(repositories_deltas.modules.deleted),
          hnew \in Orders(repositories_deltas.hostgroups.new),
          hdel \in Orders(repositories_deltas.hostgroups.deleted) :
         LET read == read_environment_definition(metadir, environment, ioerror)
             calls == IF read.exc = "JensEnvironmentsError" THEN <<>>
                      ELSE IF read.exc # "" THEN Raise(read.exc)
                      ELSE _refresh_notchanged_environment(environment,
                               read.definition, mnew, mdel, hnew, hdel)
         IN  /\ IoErrorTells(environment, ioerror)
             /\ \E fault \in FaultChoices(calls) :
                  /\ ~(ioerror /\ fault > 0 /\ hist.faults + 2 > MaxFaults)
                  /\ Round(environment, calls, fault, ioerror,
                           IF read.exc = "JensEnvironmentsError" THEN "definition" ELSE "",
                           IF read.exc = "JensEnvironmentsError" THEN "done" ELSE pc)

\* The calls of the round of `environment` in the running loop.
RoundCalls(environment, morder, horder, mnew, mdel, hnew, hdel) ==
    LET read == read_environment_definition(metadir, environment, FALSE)
    IN  CASE pc = "new" ->
               _create_new_environment(metadir, environment, inventory,
                   DIRECTORY_ENVIRONMENTS, FALSE, morder, horder)
          [] pc = "deleted" -> _purge_deleted_environment(environment)
          [] pc = "changed" ->
               _recreate_changed_environment(metadir, environment, inventory,
                   DIRECTORY_ENVIRONMENTS, FALSE, morder, horder)
          [] OTHER ->
               IF read.exc # "" THEN <<>>
               ELSE _refresh_notchanged_environment(environment, read.definition,
                        mnew, mdel, hnew, hdel)

\* The process is killed inside a round, before one of its calls.
Kill(environment) ==
    /\ InPhase
    /\ environment \in todo
    /\ hist.faults < MaxFaults
    /\ \E morder \in CreateOrders(metadir, environment, inventory, "modules"),
          horder \in CreateOrders(metadir, environment, inventory, "hostgroups"),
          mnew \in Orders(repositories_deltas.modules.new),
          mdel \in Orders(repositories_deltas.modules.deleted),
          hnew \in Orders(repositories_deltas.hostgroups.new),
          hdel \in Orders(repositories_deltas.hostgroups.deleted) :
         LET calls == RoundCalls(environment, morder, horder, mnew, mdel, hnew, hdel)
         IN  \E k \in 0..(Len(calls) - 1) :
               LET r == Run(Disk, metadir, SubSeq(calls, 1, k), 1, 0, 0, {})
               IN  /\ r.exc = ""
                   /\ r.failed = {}
                   /\ dirs' = r.st.dirs
                   /\ links' = r.st.links
                   /\ files' = r.st.files
                   /\ cache' = r.st.cache
    /\ pc' = "killed"
    /\ hist' = [hist EXCEPT !.faults = @ + 1,
                             !.mutated = @ \/ <<dirs', links', files', cache'>>
                                               # <<dirs, links, files, cache>>]
    /\ UNCHANGED <<probe, metadir, inventory, repositories_deltas,
                   DIRECTORY_ENVIRONMENTS, delta, todo, lease>>

---------------------------------------------------------------------------
(* The world between two passes: the metadata repository and the upstream   *)
(* repositories move on.                                                    *)

FA == <<"a">> \o Yaml
FB == <<"b">> \o Yaml
FHyphen == <<"a", "-", "1">> \o Yaml
FTrail == <<"a">> \o Yaml \o <<NL>>
FInner == <<"a", NL>> \o Yaml
FOther == <<"a", ".", "y">>

AllFiles == {FA, FB, FHyphen, FTrail, FInner, FOther}
Names == {SubYaml(f) : f \in AllFiles}

\* The texts a file takes in the passes of Spec.
Takes(f) ==
    CASE f = FA -> {"v1", "v2", "garbled", "empty"}
      [] f = FB -> {"v1"}
      [] f = FHyphen -> {"v1"}
      [] OTHER -> {}

NoFiles == [f \in AllFiles |-> ENOENT]

Edits(md) ==
    {md} \cup UNION {{[md EXCEPT ![f] = t] : t \in Takes(f) \cup {ENOENT}} :
                        f \in AllFiles}

NoChange == [new |-> {}, deleted |-> {}]

\* At most one repository appears or disappears upstream between two passes.
Upstream(inv) ==
    {[modules |-> NoChange, hostgroups |-> NoChange]}
    \cup {[modules |-> [new |-> {m}, deleted |-> {}], hostgroups |-> NoChange] :
            m \in Modules \ inv.modules}
    \cup {[modules |-> [new |-> {}, deleted |-> {m}], hostgroups |-> NoChange] :
            m \in inv.modules}
    \cup {[modules |-> NoChange, hostgroups |-> [new |-> {h}, deleted |-> {}]] :
            h \in Hostgroups \ inv.hostgroups}
    \cup {[modules |-> NoChange, hostgroups |-> [new |-> {}, deleted |-> {h}]] :
            h \in inv.hostgroups}

Environment ==
    /\ pc \in {"done", "raised", "killed"}
    /\ hist.passes < MaxPasses
    /\ \E md \in Edits(metadir), up \in Upstream(inventory) :
         /\ md = metadir \/ up = [modules |-> NoChange, hostgroups |-> NoChange]
         /\ metadir' = md
         /\ repositories_deltas' = up
         /\ inventory' =
              [modules |-> (inventory.modules \cup up.modules.new) \ up.modules.deleted,
               hostgroups |-> (inventory.hostgroups \cup up.hostgroups.new)
                              \ up.hostgroups.deleted]
         /\ hist' = [NewPass(hist, pc) EXCEPT
                       !.same = (md = metadir /\ up.modules = NoChange
                                 /\ up.hostgroups = NoChange)]
    /\ pc' = "idle"
    /\ delta' = NoDelta
    /\ todo' = {}
    /\ UNCHANGED <<probe, cache, dirs, links, files, DIRECTORY_ENVIRONMENTS, lease>>

---------------------------------------------------------------------------

\* Before the first pass: no tree, no cached hash; every repository is new.
Init ==
    /\ metadir \in {md \in [AllFiles -> Texts \cup {ENOENT}] :
                       \A f \in AllFiles : md[f] \in Takes(f) \cup {ENOENT}}
    /\ cache = [n \in Names |-> NoFile]
    /\ dirs = {}
    /\ links = <<>>
    /\ files = {}
    /\ \E M \in {{"m1"}}, H \in {Hostgroups} :
         /\ inventory = [modules |-> M, hostgroups |-> H]
         /\ repositories_deltas = [modules |-> [new |-> M, deleted |-> {}],
                                   hostgroups |-> [new |-> H, deleted |-> {}]]
    /\ DIRECTORY_ENVIRONMENTS \in BOOLEAN
    /\ pc = "idle"
    /\ delta = NoDelta
    /\ todo = {}
    /\ lease = 0
    /\ hist = FirstPass
    /\ probe = NoProbe

Next ==
    \/ CalculateDelta
    \/ RenewLease
    \/ Advance
    \/ \E environment \in Names : CreateNew(environment)
    \/ \E environment \in Names : PurgeDeleted(environment)
    \/ \E environment \in Names : RecreateChanged(environment)
    \/ \E environment \in Names : RefreshNotchanged(environment)
    \/ \E environment \in Names : Kill(environment)
    \/ Environment

Spec == Init /\ [][Next]_vars


---------------------------------------------------------------------------
(* _calculate_delta over every metadata directory and every cache.          *)

Cached == {NoFile, <<"sha1", "v1">>}

InitDelta ==
    /\ metadir \in [AllFiles -> {ENOENT, "v1", "v2"}]
    /\ cache \in [Names -> Cached]
    /\ dirs = {}
    /\ links = <<>>
    /\ files = {}
    /\ inventory = [modules |-> {}, hostgroups |-> {}]
    /\ repositories_deltas = [modules |-> NoChange, hostgroups |-> NoChange]
    /\ DIRECTORY_ENVIRONMENTS = FALSE
    /\ pc = "idle"
    /\ delta = NoDelta
    /\ todo = {}
    /\ lease = 0
    /\ hist = FirstPass
    /\ probe = NoProbe

NextDelta == CalculateDelta

SpecDelta == InitDelta /\ [][NextDelta]_vars

---------------------------------------------------------------------------
(* lock.renew over every size of the four classes and of the upstream       *)
(* deltas.                                                                  *)

Numbered(class, n) == {<<class, i>> : i \in 1..n}

InitLease ==
    /\ \E n \in 0..MaxCount, c \in 0..MaxCount, k \in 0..MaxCount, d \in 0..MaxCount :
         delta = [new |-> Numbered("new", n), changed |-> Numbered("changed", c),
                  notchanged |-> Numbered("notchanged", k),
                  deleted |-> Numbered("deleted", d)]
    /\ \E mn \in 0..MaxCount, hn \in 0..MaxCount, md \in 0..MaxCount, hd \in 0..MaxCount :
         /\ mn + hn <= MaxCount
         /\ md + hd <= MaxCount
         /\ repositories_deltas =
              [modules |-> [new |-> Numbered("module", mn),
                            deleted |-> Numbered("gone", md)],
               hostgroups |-> [new |-> Numbered("hostgroup", hn),
                               deleted |-> Numbered("gone", hd)]]
    /\ metadir = NoFiles
    /\ cache = [n \in Names |-> NoFile]
    /\ dirs = {}
    /\ links = <<>>
    /\ files = {}
    /\ inventory = [modules |-> {}, hostgroups |-> {}]
    /\ DIRECTORY_ENVIRONMENTS = FALSE
    /\ pc = "renew"
    /\ todo = {}
    /\ lease = 0
    /\ hist = FirstPass
    /\ probe = NoProbe

NextLease == RenewLease

SpecLease == InitLease /\ [][NextLease]_vars

---------------------------------------------------------------------------
(* The first pass over every metadata directory, nothing failing outside.   *)

InitFirstPass ==
    /\ metadir \in [AllFiles -> {ENOENT, "v1"}]
    /\ cache = [n \in Names |-> NoFile]
    /\ dirs = {}
    /\ links = <<>>
    /\ files = {}
    /\ inventory = [modules |-> {"m1"}, hostgroups |-> Hostgroups]
    /\ repositories_deltas = [modules |-> [new |-> {"m1"}, deleted |-> {}],
                              hostgroups |-> [new |-> Hostgroups, deleted |-> {}]]
    /\ DIRECTORY_ENVIRONMENTS \in BOOLEAN
    /\ pc = "idle"
    /\ delta = NoDelta
    /\ todo = {}
    /\ lease = 0
    /\ hist = [FirstPass EXCEPT !.faults = MaxFaults]
    /\ probe = NoProbe

NextFirstPass ==
    \/ CalculateDelta
    \/ RenewLease
    \/ Advance
    \/ \E environment \in Names : CreateNew(environment)

SpecFirstPass == InitFirstPass /\ [][NextFirstPass]_vars


---------------------------------------------------------------------------
(* The properties.                                                          *)

Declared == get_names_of_declared_environments(metadir)
Present == {n \in Names : cache[n] # NoFile}
Current(n) == hash_object(metadir, DefinitionPath(n))

\* C1: when _calculate_delta returns, its four sets are pairwise disjoint,
\* their union is D \cup P (D the declared names, P the names of the cache),
\* new = D \ P, deleted = P \ D, and a name of D \cap P is in notchanged
\* exactly when its cached hash is the hash of its declaration file, and in
\* changed otherwise.
C1_DeltaPartition ==
    pc = "renew" =>
      LET D == Declared
          P == Present
          classes == <<delta.new, delta.changed, delta.notchanged, delta.deleted>>
      IN  /\ \A i \in 1..4, j \in 1..4 : i # j => classes[i] \cap classes[j] = {}
          /\ UNION {classes[i] : i \in 1..4} = D \cup P
          /\ delta.new = D \ P
          /\ delta.deleted = P \ D
          /\ \A n \in D \cap P :
               /\ n \in delta.notchanged <=> cache[n] = Current(n).digest
               /\ n \in delta.changed <=> cache[n] # Current(n).digest

\* The delta has been computed and none of its four sets is empty.
C1_FourClasses ==
    /\ pc = "renew"
    /\ delta.new # {} /\ delta.changed # {}
    /\ delta.notchanged # {} /\ delta.deleted # {}

\* Ten times the sum of the lease formula, in integers.
TenfoldCost ==
    3 * Cardinality(delta.new) + 4 * Cardinality(delta.changed)
    + Cardinality(delta.notchanged)
      * (2 * aggregate_deltas(repositories_deltas).new
         + aggregate_deltas(repositories_deltas).deleted)
    + Cardinality(delta.deleted)

ExactSeconds == ((TenfoldCost + 9) \div 10) + 2

Sizes == <<Cardinality(delta.new), Cardinality(delta.changed),
           Cardinality(delta.notchanged), Cardinality(delta.deleted),
           aggregate_deltas(repositories_deltas).new,
           aggregate_deltas(repositories_deltas).deleted>>

\* C9 (as stated): the seconds given to lock.renew are
\* ceil((3*|new| + 4*|changed| + |notchanged|*(2*totalNew + totalDeleted)
\* + |deleted|) / 10) + 2 in exact integer arithmetic.
C9_ExactCeiling ==
    pc = Phases[1] /\ hist.renewals = 1 => lease = ExactSeconds

\* C9 (amended): the seconds given to lock.renew are the ceiling of the sum
\* computed in double precision, plus 2: the exact value or one more; at
\* least 2; 2 when the four sets are empty; 3 for one new environment and no
\* upstream delta; 4 for one environment of each class with upstream totals
\* new = 2, deleted = 1; and 4, not 3, for one new, two notchanged, one
\* deleted with upstream totals new = 1, deleted = 1.
C9_FloatCeiling ==
    pc = Phases[1] /\ hist.renewals = 1 =>
      /\ lease \in {ExactSeconds, ExactSeconds + 1}
      /\ lease >= 2
      /\ TenfoldCost = 0 => lease = 2
      /\ Sizes = <<1, 0, 0, 0, 0, 0>> => lease = 3
      /\ Sizes = <<1, 1, 1, 1, 2, 1>> => lease = 4
      /\ Sizes = <<1, 0, 2, 1, 1, 1>> => lease = 4

\* The lease was renewed for one second more than the exact ceiling.
C9_OneMoreThanExact ==
    /\ pc = Phases[1] /\ hist.renewals = 1
    /\ Sizes = <<1, 0, 2, 1, 1, 1>>
    /\ lease = ExactSeconds + 1


OnlyWordChars(name) ==
    /\ Len(name) > 0
    /\ \A i \in 1..Len(name) : name[i] \in WordChars

\* Nothing of the environment is on the disk, and it has no cached hash.
Untouched(name) ==
    /\ \A path \in dirs \cup files \cup DOMAIN links : path[1] # name
    /\ cache[name] = NoFile

\* C10: when _create_new_environment has returned for a name that is not made
\* of one or more word characters, there is no directory, no link and no
\* cached hash of that name; a name made only of word characters is not
\* refused for its name.
C10_NameValidation ==
    \A name \in hist.handled :
        /\ ~OnlyWordChars(name) => Untouched(name)
        /\ OnlyWordChars(name) => Event(name, "name") \notin hist.failed


---------------------------------------------------------------------------
(* The passes of refresh_environments.                                      *)

Rank(p) ==
    CASE p = "new" -> 1
      [] p = "deleted" -> 2
      [] p = "changed" -> 3
      [] p = "notchanged" -> 4
      [] OTHER -> 0

AllDelta == delta.new \cup delta.deleted \cup delta.changed \cup delta.notchanged

\* Whose tree or cached hash the step changes.
Touched ==
    {n \in Names :
        \/ cache'[n] # cache[n]
        \/ {p \in dirs : p[1] = n} # {p \in dirs' : p[1] = n}
        \/ {p \in files : p[1] = n} # {p \in files' : p[1] = n}
        \/ Restrict(links, {p \in DOMAIN links : p[1] = n})
           # Restrict(links', {p \in DOMAIN links' : p[1] = n})}

PassOrder ==
    /\ <<dirs, links, files, cache>>' # <<dirs, links, files, cache>> =>
         /\ Rank(pc) > 0
         /\ hist.renewals = 1
         /\ Touched \subseteq delta[pc]
    /\ hist'.renewals > hist.renewals =>
         /\ pc = "renew" /\ Rank(pc') = 1
         /\ hist.renewals = 0
         /\ ~hist.mutated
    /\ delta' # delta => pc = "idle" \/ pc' = "idle"
    /\ Rank(pc) > 0 /\ Rank(pc') > 0 => Rank(pc') \in {Rank(pc), Rank(pc) + 1}
    /\ Rank(pc) > 0 /\ Rank(pc') > Rank(pc) => delta[pc] \subseteq hist.handled
    /\ hist'.handled # hist.handled /\ hist'.handled # {} =>
         hist'.handled \ hist.handled \subseteq delta[pc]

\* C2: in every pass the delta is computed once and not again before the pass
\* ends, the lease is renewed once and before any change of the tree or of
\* the hash cache, and the changes go loop by loop: new, deleted, changed,
\* notchanged; a step only changes environments of the class of the running
\* loop, and a loop is entered when the loop before it has visited all its
\* environments.
C2_PassOrder == [][PassOrder]_vars

\* A pass has ended whose delta had new, changed and notchanged
\* environments, all visited, and the disk changed.
C2_ThreeLoopsRan ==
    /\ pc = "done"
    /\ delta.new # {} /\ delta.changed # {} /\ delta.notchanged # {}
    /\ AllDelta \subseteq hist.handled
    /\ hist.mutated
    /\ hist.renewals = 1


PassEnded == pc \in {"done", "raised"}

\* The environments a failure of this pass is about.
Failing == {ev.env : ev \in hist.failed}

\* The failures of this pass are all of these kinds, and there is one.
OnlyFailures(ops) ==
    /\ hist.failed # {}
    /\ \A ev \in hist.failed : ev.op \in ops

\* C3: when a pass has ended in which the only failures were names refused
\* and definitions that could not be read or parsed, every other environment
\* of the delta has been visited by its loop.
C3_WholeEnvironmentFailure ==
    PassEnded /\ OnlyFailures({"name", "definition"}) =>
        AllDelta \ Failing \subseteq hist.handled

\* C4: when a pass has ended in which the only failures were those of os.mkdir
\* and of shutil.rmtree, every other environment of the delta has been
\* visited by its loop.
C4_DirectoryFailureContained ==
    PassEnded /\ OnlyFailures({"mkdir", "rmtree"}) =>
        AllDelta \ Failing \subseteq hist.handled

\* The definition of the environment can be used: its name matches and its
\* file is read as a mapping.
Valid(n) ==
    /\ MatchWord(n)
    /\ read_environment_definition(metadir, n, FALSE).exc = ""

\* What is below the directory of the environment.
TreeOf(st, n) ==
    [dirs |-> {p \in st.dirs : p[1] = n},
     files |-> {p \in st.files : p[1] = n},
     links |-> Restrict(st.links, {p \in DOMAIN st.links : p[1] = n})]

\* The tree _create_new_environment makes on an empty disk when nothing fails.
ExpectedTree(n) ==
    LET morder == CHOOSE o \in CreateOrders(metadir, n, inventory, "modules") : TRUE
        horder == CHOOSE o \in CreateOrders(metadir, n, inventory, "hostgroups") : TRUE
        calls == _create_new_environment(metadir, n, inventory,
                     DIRECTORY_ENVIRONMENTS, FALSE, morder, horder)
        blank == [dirs |-> {}, links |-> <<>>, files |-> {}, cache |-> cache]
    IN  TreeOf(Run(blank, metadir, calls, 1, 0, 0, {}).st, n)

TreeComplete(n) == TreeOf(Disk, n) = ExpectedTree(n)

Repaired(n) ==
    /\ n \in Declared /\ Valid(n) =>
         /\ TreeComplete(n)
         /\ cache[n] = Current(n).digest
    /\ n \notin Declared => Untouched(n)

\* C5: when the pass after a killed pass has ended, with the declarations and
\* the inventory of the killed pass and nothing failing for an outside
\* reason, it has run to its end, every declared environment that is valid
\* has its complete tree and the hash of its declaration in the cache, and
\* every environment that is not declared has no tree and no cached hash.
C5_CrashRecovery ==
    PassEnded /\ hist.prev.end = "killed" /\ hist.same /\ hist.injected = 0 =>
        /\ pc = "done"
        /\ \A n \in Names : Repaired(n)

\* C6: when a pass has run to its end with the declarations and the inventory
\* of the pass before, no upstream delta and nothing failing for an outside
\* reason, every environment the pass before created with a link that failed
\* has its complete tree.
C6_PartialLinksRepaired ==
    pc = "done" /\ hist.same /\ hist.injected = 0 /\ hist.failed = {} =>
        \A n \in hist.prev.partial : TreeComplete(n)

\* No hash of the present declaration is cached for the environment.
NotCommitted(n) ==
    \/ Current(n).exc # ""
    \/ cache[n] # Current(n).digest

C7_NoDigest ==
    \A n \in hist.skipped : NotCommitted(n)

C7_Reclassified ==
    Rank(pc) > 0 \/ pc \in {"renew", "done"} =>
        \A n \in hist.prev.skipped \cap Declared :
            n \in delta.new \cup delta.changed

C7_Reattempted ==
    PassEnded /\ hist.faults = 0 /\ hist.prev.end = "done" =>
        \A n \in hist.prev.skipped \cap Declared : n \in hist.handled

\* C7: an environment whose creation or recreation a pass skipped, for its
\* name or its definition, has no hash of its declaration cached by that
\* pass; while it is declared the next pass has it in new or changed, and
\* when that pass has ended, the pass before having run to its end and
\* nothing having failed for an outside reason, it has attempted the
\* environment again.
C7_RetrySkipped ==
    /\ C7_NoDigest
    /\ C7_Reclassified
    /\ C7_Reattempted

\* The pass before ran to its end without a failure, and this pass has its
\* declarations and inventory, and no upstream delta.
Quiet ==
    /\ hist.same
    /\ hist.prev.end = "done"
    /\ hist.prev.failed = {}
    /\ hist.prev.injected = 0

\* C8: while the declarations are those of the pass, recomputing the delta
\* has every environment the pass created or recreated in notchanged; and a
\* pass that follows a pass without failure, with the same declarations and
\* no upstream delta, has an empty new, changed and deleted and changes
\* neither the trees nor the hash cache.
C8_DigestFixpoint ==
    /\ \A n \in hist.created :
         LET r == _calculate_delta(metadir, cache)
         IN  r.exc = "" /\ n \in r.delta.notchanged
    /\ Quiet =>
         /\ pc # "idle" =>
              delta.new = {} /\ delta.changed = {} /\ delta.deleted = {}
         /\ ~hist.mutated

\* The second of two passes has ended, quiet: what the first created is
\* notchanged.
C8_SecondPassQuiet ==
    /\ Quiet
    /\ pc = "done"
    /\ hist.prev.created # {}
    /\ hist.prev.created \subseteq delta.notchanged
    /\ hist.prev.created \subseteq hist.handled


---------------------------------------------------------------------------
(* Functions called on their own.  Nothing else runs: the pass stands       *)
(* still on an empty disk.                                                  *)

Still ==
    /\ metadir = NoFiles
    /\ cache = [n \in Names |-> NoFile]
    /\ dirs = {}
    /\ links = <<>>
    /\ files = {}
    /\ inventory = [modules |-> {}, hostgroups |-> {}]
    /\ repositories_deltas = [modules |-> NoChange, hostgroups |-> NoChange]
    /\ DIRECTORY_ENVIRONMENTS = FALSE
    /\ pc = "probe"
    /\ delta = NoDelta
    /\ todo = {}
    /\ lease = 0
    /\ hist = FirstPass

\* The dicts with keys among K and values in V.
Dicts(K, V) == UNION {[D -> V] : D \in SUBSET K}

Partitions == {"modules", "hostgroups", "common"}
Elements == {"m1", "site"}
Branches == {"rel2", "qa"}

\* The declarations read_environment_definition returns, as far as
\* _resolve_branch looks at them.
Definitions ==
    {Mapping({"notifications"} \cup ks, default, overrides) :
        ks \in SUBSET {"default", "overrides"},
        default \in {None, "master", "qa"},
        overrides \in {NoOverrides}
                      \cup {Overrides(parts) :
                              parts \in Dicts(Partitions, Dicts(Elements, Branches))}}

\* A declaration as yaml gives it: a key that is absent has no value, and
\* `overrides` is a mapping when it is there.
WellFormed(d) ==
    /\ "default" \notin d.keys => d.default = None
    /\ "overrides" \in d.keys <=> ~d.overrides.null

InitResolve ==
    /\ Still
    /\ \E d \in Definitions, p \in Partitions, e \in Elements :
         /\ WellFormed(d)
         /\ probe = [fn |-> "_resolve_branch", done |-> FALSE,
                     partition |-> p, element |-> e, definition |-> d,
                     out |-> [branch |-> <<>>, overridden |-> FALSE]]

ResolveBranch ==
    /\ probe.fn = "_resolve_branch"
    /\ ~probe.done
    /\ probe' = [probe EXCEPT
                   !.done = TRUE,
                   !.out = _resolve_branch(probe.partition, probe.element,
                                           probe.definition)]
    /\ UNCHANGED <<metadir, cache, dirs, links, files, inventory,
                   repositories_deltas, DIRECTORY_ENVIRONMENTS, pc, delta, todo,
                   lease, hist>>

NextResolve == ResolveBranch

SpecResolve == InitResolve /\ [][NextResolve]_vars

\* The declaration has overrides[partition][element].
HasOverride(d, p, e) ==
    /\ "overrides" \in d.keys
    /\ p \in DOMAIN d.overrides.parts
    /\ e \in DOMAIN d.overrides.parts[p]

\* The declaration without overrides[partition][element].
WithoutOverride(d, p, e) ==
    LET parts == d.overrides.parts
    IN  [d EXCEPT !.overrides.parts =
            [q \in DOMAIN parts |->
                IF q = p THEN Restrict(parts[q], DOMAIN parts[q] \ {e})
                ELSE parts[q]]]

\* C11: when the declaration has overrides[partition][element],
\* _resolve_branch returns that branch and overridden = True, whatever the
\* default; when it has no such override and has a default, it returns the
\* default and overridden = False; and for a declaration with both, the
\* declaration without that override resolves to the default.
C11_OverridePrecedence ==
    probe.fn = "_resolve_branch" /\ probe.done =>
      LET d == probe.definition
          p == probe.partition
          e == probe.element
      IN  /\ HasOverride(d, p, e) =>
                /\ probe.out.overridden
                /\ probe.out.branch = refname_to_dirname(d.overrides.parts[p][e])
          /\ ~HasOverride(d, p, e) /\ "default" \in d.keys =>
                /\ ~probe.out.overridden
                /\ probe.out.branch = refname_to_dirname(d.default)
          /\ HasOverride(d, p, e) /\ "default" \in d.keys =>
                _resolve_branch(p, e, WithoutOverride(d, p, e))
                = [branch |-> refname_to_dirname(d.default), overridden |-> FALSE]

\* _resolve_branch has returned for an element with an override and a
\* default that differ.
C11_OverrideAndDefault ==
    /\ probe.fn = "_resolve_branch" /\ probe.done
    /\ HasOverride(probe.definition, probe.partition, probe.element)
    /\ "default" \in probe.definition.keys
    /\ probe.definition.default = "master"
    /\ probe.out = [branch |-> refname_to_dirname("rel2"), overridden |-> TRUE]


---------------------------------------------------------------------------
(* _create_new_environment over the declarations and the inventories,      *)
(* nothing failing outside.                                                 *)

\* The texts of a declaration read_environment_definition returns.
Readable == {"v1", "v2", "optin", "optinhg", "bare", "nulldef"}

InitCreate ==
    /\ \E t \in Readable : metadir = [NoFiles EXCEPT ![FA] = t]
    /\ cache = [n \in Names |-> NoFile]
    /\ dirs = {}
    /\ links = <<>>
    /\ files = {}
    /\ \E M \in SUBSET Modules, H \in SUBSET Hostgroups :
         /\ inventory = [modules |-> M, hostgroups |-> H]
         /\ repositories_deltas = [modules |-> [new |-> M, deleted |-> {}],
                                   hostgroups |-> [new |-> H, deleted |-> {}]]
    /\ DIRECTORY_ENVIRONMENTS \in BOOLEAN
    /\ pc = "idle"
    /\ delta = NoDelta
    /\ todo = {}
    /\ lease = 0
    /\ hist = [FirstPass EXCEPT !.faults = MaxFaults]
    /\ probe = NoProbe

SpecCreate == InitCreate /\ [][NextFirstPass]_vars

\* The declaration of the environment, as it is read.
DefinitionOf(n) == read_environment_definition(metadir, n, FALSE).definition

\* The elements of a partition whose links are all there, and those with a
\* link there.
FullyLinked(n, partition) ==
    IF partition = "modules"
    THEN {m \in Modules :
            {_generate_module_env_code_path(m, n),
             _generate_module_env_hieradata_path(m, n)} \subseteq DOMAIN links}
    ELSE {h \in Hostgroups :
            {_generate_hostgroup_env_code_path(h, n),
             _generate_hostgroup_env_hieradata_hostgroup_path(h, n),
             _generate_hostgroup_env_hieradata_fqdns_path(h, n)} \subseteq DOMAIN links}

SomeLink(n, partition) ==
    IF partition = "modules"
    THEN {m \in Modules :
            {_generate_module_env_code_path(m, n),
             _generate_module_env_hieradata_path(m, n)} \cap DOMAIN links # {}}
    ELSE {h \in Hostgroups :
            {_generate_hostgroup_env_code_path(h, n),
             _generate_hostgroup_env_hieradata_hostgroup_path(h, n),
             _generate_hostgroup_env_hieradata_fqdns_path(h, n)} \cap DOMAIN links # {}}

\* C12: when _create_new_environment has run to its end with nothing
\* failing, the modules (hostgroups) linked are all those of the inventory
\* if the declaration has a default, and otherwise exactly those of the
\* inventory that are keys of overrides.modules (overrides.hostgroups), none
\* when that partition or `overrides` is missing; a module linked without a
\* default is linked on the branch of its override.
C12_ElementSelection ==
    \A n \in hist.created : \A partition \in {"modules", "hostgroups"} :
        LET d == DefinitionOf(n)
            expected == IF "default" \in d.keys THEN inventory[partition]
                        ELSE {x \in inventory[partition] : HasOverride(d, partition, x)}
        IN  /\ FullyLinked(n, partition) = expected
            /\ SomeLink(n, partition) = expected
            /\ "default" \notin d.keys =>
                 \A m \in expected \cap Modules :
                    links[_generate_module_env_code_path(m, n)][3]
                    = refname_to_dirname(d.overrides.parts.modules[m])

\* The environment without default and with overrides.modules = {m1: rel2}
\* is created from the inventory {m1, m2}: m1 is linked on rel2, m2 is not.
C12_OnlyOverriddenModule ==
    /\ <<"a">> \in hist.created
    /\ metadir[FA] = "optin"
    /\ inventory.modules = {"m1", "m2"}
    /\ _generate_module_env_code_path("m1", <<"a">>) \in DOMAIN links
    /\ links[_generate_module_env_code_path("m1", <<"a">>)][3] = refname_to_dirname("rel2")
    /\ _generate_module_env_code_path("m2", <<"a">>) \notin DOMAIN links
    /\ _generate_module_env_hieradata_path("m2", <<"a">>) \notin DOMAIN links


---------------------------------------------------------------------------
(* _refresh_notchanged_environments: a first pass creates the environments, *)
(* repositories appear and disappear upstream, and a second pass refreshes  *)
(* them.                                                                    *)

InitRefresh ==
    /\ \E ta \in {"v1", "optin", "nulldefc"}, tb \in {"v1", "optin", ENOENT} :
         metadir = [NoFiles EXCEPT ![FA] = ta, ![FB] = tb]
    /\ cache = [n \in Names |-> NoFile]
    /\ dirs = {}
    /\ links = <<>>
    /\ files = {}
    /\ \E M \in SUBSET Modules, H \in SUBSET Hostgroups :
         /\ inventory = [modules |-> M, hostgroups |-> H]
         /\ repositories_deltas = [modules |-> [new |-> M, deleted |-> {}],
                                   hostgroups |-> [new |-> H, deleted |-> {}]]
    /\ DIRECTORY_ENVIRONMENTS = FALSE
    /\ pc = "idle"
    /\ delta = NoDelta
    /\ todo = {}
    /\ lease = 0
    /\ hist = FirstPass
    /\ probe = NoProbe

\* Between two passes any repositories appear and disappear upstream.
UpstreamMoves ==
    /\ pc \in {"done", "raised"}
    /\ hist.passes < MaxPasses
    /\ \E mnew \in SUBSET (Modules \ inventory.modules),
          mdel \in SUBSET inventory.modules,
          hnew \in SUBSET (Hostgroups \ inventory.hostgroups),
          hdel \in SUBSET inventory.hostgroups :
         /\ repositories_deltas' = [modules |-> [new |-> mnew, deleted |-> mdel],
                                    hostgroups |-> [new |-> hnew, deleted |-> hdel]]
         /\ inventory' = [modules |-> (inventory.modules \cup mnew) \ mdel,
                          hostgroups |-> (inventory.hostgroups \cup hnew) \ hdel]
         /\ hist' = [NewPass(hist, pc) EXCEPT
                       !.same = (mnew \cup mdel \cup hnew \cup hdel = {})]
    /\ pc' = "idle"
    /\ delta' = NoDelta
    /\ todo' = {}
    /\ UNCHANGED <<probe, metadir, cache, dirs, links, files,
                   DIRECTORY_ENVIRONMENTS, lease>>

NextRefresh ==
    \/ CalculateDelta
    \/ RenewLease
    \/ Advance
    \/ \E environment \in Names : CreateNew(environment)
    \/ \E environment \in Names : RefreshNotchanged(environment)
    \/ UpstreamMoves

SpecRefresh == InitRefresh /\ [][NextRefresh]_vars

\* The declaration has a default, as _refresh_notchanged_environments tests it.
HasDefault(d) == "default" \in d.keys /\ d.default # None

\* The elements upstream reports new (deleted) in a partition.
UpstreamNew(partition) == repositories_deltas[partition].new
UpstreamDeleted(partition) == repositories_deltas[partition].deleted

\* The notchanged environments whose declaration was read in this pass.
ReadNotchanged ==
    {n \in delta.notchanged :
        /\ read_environment_definition(metadir, n, FALSE).exc = ""
        /\ Event(n, "definition") \notin hist.failed}

\* What the refresh owes environment n: with a default every new element is
\* linked, but for as many as links failed; without a default none gets a
\* link; no deleted element keeps a link.
Refreshed(n) ==
    LET d == DefinitionOf(n)
        missing == UNION {UpstreamNew(p) \ FullyLinked(n, p) :
                            p \in {"modules", "hostgroups"}}
        allowed == IF Event(n, "symlink") \in hist.failed THEN hist.injected ELSE 0
    IN  /\ HasDefault(d) => Cardinality(missing) <= allowed
        /\ ~HasDefault(d) =>
             \A p \in {"modules", "hostgroups"} : UpstreamNew(p) \cap SomeLink(n, p) = {}
        /\ \A p \in {"modules", "hostgroups"} : UpstreamDeleted(p) \cap SomeLink(n, p) = {}

\* C13: when a pass has run to its end, every notchanged environment whose
\* declaration could be read has a link for every upstream-new module and
\* hostgroup if and only if its declaration has a default (a failed link
\* costs that element only), and has no link of an upstream-deleted one.
C13_RefreshRule ==
    pc = "done" => \A n \in ReadNotchanged : Refreshed(n)

\* The same, in the passes in which every declaration of a notchanged
\* environment could be read.
RefreshRuleWhenAllRead ==
    pc = "done" /\ (\A n \in Names : Event(n, "definition") \notin hist.failed)
        => \A n \in ReadNotchanged : Refreshed(n)

\* A link failed for one new element of an environment and the other new
\* element was linked all the same.
RefreshedPastFailure ==
    /\ pc = "done"
    /\ \E n \in ReadNotchanged :
         /\ Event(n, "symlink") \in hist.failed
         /\ \E p \in {"modules", "hostgroups"} : UpstreamNew(p) \cap FullyLinked(n, p) # {}


\* The links of the tree of environment n.
LinksOf(n) == {p \in DOMAIN links : p[1] = n}

\* The call of _resolve_branch behind a link: the partition and the element
\* are the first two parts of its target.
ResolvedFor(p) == [partition |-> links[p][1][1], element |-> links[p][2][1]]

\* C14: every link of an environment that _create_new_environment has made
\* is of an element that has an override or whose declaration has a default:
\* no link is on the fallback branch of _resolve_branch.
C14_FallbackUnreachable ==
    \A n \in hist.created : \A p \in LinksOf(n) :
        LET d == DefinitionOf(n)
            call == ResolvedFor(p)
        IN  \/ HasOverride(d, call.partition, call.element)
            \/ "default" \in d.keys


---------------------------------------------------------------------------
(* read_environment_definition on its own, over every text of a declaration *)
(* file, with and without a failure of open().                              *)

InitRead ==
    /\ \E f \in {FA, FB, FHyphen}, t \in Texts \cup {ENOENT}, ioerror \in BOOLEAN :
         /\ metadir = [NoFiles EXCEPT ![f] = t]
         /\ probe = [fn |-> "read_environment_definition", done |-> FALSE,
                     environment |-> SubYaml(f), ioerror |-> ioerror,
                     out |-> Raised("")]
    /\ cache \in {[n \in Names |-> NoFile],
                  [n \in Names |-> IF n = <<"a">> THEN <<"sha1", "v1">> ELSE NoFile]}
    /\ dirs = {}
    /\ links = <<>>
    /\ files = {}
    /\ inventory = [modules |-> {}, hostgroups |-> {}]
    /\ repositories_deltas = [modules |-> NoChange, hostgroups |-> NoChange]
    /\ DIRECTORY_ENVIRONMENTS = FALSE
    /\ pc = "probe"
    /\ delta = NoDelta
    /\ todo = {}
    /\ lease = 0
    /\ hist = FirstPass

ReadDefinition ==
    /\ probe.fn = "read_environment_definition"
    /\ ~probe.done
    /\ probe' = [probe EXCEPT
                   !.done = TRUE,
                   !.out = read_environment_definition(metadir, probe.environment,
                                                       probe.ioerror)]
    /\ UNCHANGED <<metadir, cache, dirs, links, files, inventory, repositories_deltas,
                   DIRECTORY_ENVIRONMENTS, pc, delta, todo, lease, hist>>

NextRead == ReadDefinition

SpecRead == InitRead /\ [][NextRead]_vars

\* The text of the declaration file of the call.
ProbedText == metadir[DefinitionPath(probe.environment)]

\* The cases in which the declaration is not to be returned: the file cannot
\* be opened, is not YAML, is a document without `notifications` (an empty
\* document among them), or has a null `overrides`.
Unusable(text, ioerror) ==
    LET loaded == yaml_load(text)
    IN  \/ ioerror
        \/ text = ENOENT
        \/ loaded.exc # ""
        \/ loaded.none
        \/ "notifications" \notin loaded.doc.keys
        \/ "overrides" \in loaded.doc.keys /\ loaded.doc.overrides.null

\* C15: read_environment_definition raises JensEnvironmentsError, and nothing
\* else, when the file cannot be opened, is not valid YAML, lacks
\* `notifications` (an empty document included) or has a null `overrides`; in
\* every other case it returns the parsed declaration.
C15_DefinitionErrors ==
    probe.fn = "read_environment_definition" /\ probe.done =>
        IF Unusable(ProbedText, probe.ioerror)
        THEN probe.out.exc = "JensEnvironmentsError"
        ELSE /\ probe.out.exc = ""
             /\ probe.out.definition = yaml_load(ProbedText).doc

\* The same but for the empty document.
DefinitionErrorsButEmpty ==
    probe.fn = "read_environment_definition" /\ probe.done /\ ProbedText # "empty" =>
        IF Unusable(ProbedText, probe.ioerror)
        THEN probe.out.exc = "JensEnvironmentsError"
        ELSE /\ probe.out.exc = ""
             /\ probe.out.definition = yaml_load(ProbedText).doc


---------------------------------------------------------------------------

\* This step is the round of _recreate_changed_environments in which the
\* creation of n, which the pass before created, is refused for its name or
\* its definition.
RecreationSkipped(n) ==
    /\ pc = "changed"
    /\ n \in hist.prev.created
    /\ n \in todo
    /\ n \notin hist.skipped
    /\ n \in hist'.skipped

\* C16: the round of a changed environment, created by the pass before, whose
\* new declaration cannot be read or parsed leaves the tree of that environment and its cached hash as
\* they were.
C16_SkippedLeftUnchanged ==
    [][\A n \in Names :
         RecreationSkipped(n) =>
            /\ TreeOf([dirs |-> dirs', links |-> links', files |-> files'], n)
               = TreeOf([dirs |-> dirs, links |-> links, files |-> files], n)
            /\ cache'[n] = cache[n]]_vars


---------------------------------------------------------------------------

\* Nothing of the environment is on the disk.
NoTree(n) == \A path \in dirs \cup files \cup DOMAIN links : path[1] # n

\* The deleted environments _purge_deleted_environment has returned for.
Purged == hist.handled \cap delta.deleted

\* The claim as it is worded: after _purge_deleted_environment has returned
\* for a deleted environment, neither its tree nor its cached hash exists.
C17_TreeAndDigestGone ==
    \A n \in Purged : NoTree(n) /\ cache[n] = NoFile

\* C17: after _purge_deleted_environment has returned for a deleted
\* environment its tree does not exist, and its cached hash does not exist
\* unless os.remove failed, which is logged and lets the function return; the
\* tree is removed first: when shutil.rmtree has raised, the cached hash is
\* still there.
C17_PurgeOrder ==
    \A n \in delta.deleted :
        /\ n \in Purged =>
             /\ NoTree(n)
             /\ cache[n] = NoFile \/ Event(n, "remove") \in hist.failed
        /\ Event(n, "remove") \in hist.failed => n \in Purged
        /\ Event(n, "rmtree") \in hist.failed => cache[n] # NoFile /\ n \notin Purged

\* os.remove has failed for a deleted environment: the function has returned,
\* the tree is gone and the cached hash is still there.
C17_DigestKept ==
    \E n \in Purged :
        /\ Event(n, "remove") \in hist.failed
        /\ NoTree(n)
        /\ cache[n] # NoFile


---------------------------------------------------------------------------
(* _link_module, _link_hostgroup, _unlink_module and _unlink_hostgroup on    *)
(* their own, on the tree of an environment with any of the links of the    *)
(* element there or not.                                                    *)

\* The link names of a module, of a hostgroup.
ModuleLinks(m, n) ==
    {_generate_module_env_code_path(m, n), _generate_module_env_hieradata_path(m, n)}
HostgroupLinks(h, n) ==
    {_generate_hostgroup_env_code_path(h, n),
     _generate_hostgroup_env_hieradata_hostgroup_path(h, n),
     _generate_hostgroup_env_hieradata_fqdns_path(h, n)}

\* The disk after environment `a` is created from a.yaml with modules m1 and
\* m2 and hostgroup h1.
CreatedDisk(md) ==
    LET inv == [modules |-> Modules, hostgroups |-> Hostgroups]
        calls == _create_new_environment(md, <<"a">>, inv, FALSE, FALSE,
                     <<"m1", "m2">>, <<"h1">>)
    IN  Run([dirs |-> {}, links |-> <<>>, files |-> {},
             cache |-> [n \in Names |-> NoFile]], md, calls, 1, 0, 0, {}).st

LinkFunctions == {"_link_module", "_link_hostgroup"}
UnlinkFunctions == {"_unlink_module", "_unlink_hostgroup"}

InitLinks ==
    /\ metadir = [NoFiles EXCEPT ![FA] = "v1"]
    /\ \E gone \in SUBSET (ModuleLinks("m1", <<"a">>) \cup HostgroupLinks("h1", <<"a">>)),
          fn \in LinkFunctions \cup UnlinkFunctions :
         LET disk == CreatedDisk(metadir)
         IN  /\ dirs = disk.dirs
             /\ files = disk.files
             /\ cache = disk.cache
             /\ links = Restrict(disk.links, DOMAIN disk.links \ gone)
             /\ probe = [fn |-> fn, done |-> 0, exc |-> "",
                         before |-> links, once |-> links]
    /\ inventory = [modules |-> Modules, hostgroups |-> Hostgroups]
    /\ repositories_deltas = [modules |-> NoChange, hostgroups |-> NoChange]
    /\ DIRECTORY_ENVIRONMENTS = FALSE
    /\ pc = "probe"
    /\ delta = NoDelta
    /\ todo = {}
    /\ lease = 0
    /\ hist = FirstPass

\* The calls of the probed function, for module m1 or hostgroup h1 of `a`.
ProbedCalls ==
    LET definition == DefinitionOf(<<"a">>)
    IN  CASE probe.fn = "_link_module" -> _link_module("m1", <<"a">>, definition, 0)
          [] probe.fn = "_link_hostgroup" -> _link_hostgroup("h1", <<"a">>, definition, 0)
          [] probe.fn = "_unlink_module" -> _unlink_module("m1", <<"a">>)
          [] OTHER -> _unlink_hostgroup("h1", <<"a">>)

ProbedLinks ==
    IF probe.fn \in {"_link_module", "_unlink_module"}
    THEN ModuleLinks("m1", <<"a">>) ELSE HostgroupLinks("h1", <<"a">>)

Probed(times) ==
    /\ probe.fn \in LinkFunctions \cup UnlinkFunctions
    /\ probe.done < times
    /\ LET r == Run(Disk, metadir, ProbedCalls, 1, 0, 0, {})
       IN  /\ dirs' = r.st.dirs
           /\ links' = r.st.links
           /\ files' = r.st.files
           /\ cache' = r.st.cache
           /\ probe' = [probe EXCEPT !.done = @ + 1, !.exc = r.exc,
                                     !.once = IF probe.done = 0 THEN r.st.links ELSE @]
    /\ UNCHANGED <<metadir, inventory, repositories_deltas, DIRECTORY_ENVIRONMENTS,
                   pc, delta, todo, lease, hist>>

\* The link function is called once, the unlink function twice.
LinkElement == probe.fn \in LinkFunctions /\ Probed(1)
UnlinkElement == probe.fn \in UnlinkFunctions /\ Probed(2)

NextLinks == LinkElement \/ UnlinkElement

SpecLinks == InitLinks /\ [][NextLinks]_vars

\* C18: _unlink_module and _unlink_hostgroup do not raise, leave none of the
\* two (three) links of the element and touch nothing else; called when no
\* link of the element exists they leave the tree as it is, and a second
\* call leaves the tree as the first left it.  _link_module and
\* _link_hostgroup raise JensEnvironmentsError when a link they are to create
\* exists, and create every link of the element when none does.
C18_UnlinkIdempotentLinkFails ==
    /\ probe.fn \in UnlinkFunctions /\ probe.done >= 1 =>
         /\ probe.exc = ""
         /\ ProbedLinks \cap DOMAIN links = {}
         /\ links = Restrict(probe.before, DOMAIN probe.before \ ProbedLinks)
         /\ ProbedLinks \cap DOMAIN probe.before = {} => links = probe.before
         /\ links = probe.once
         /\ <<dirs, files, cache>> = <<CreatedDisk(metadir).dirs,
                                       CreatedDisk(metadir).files,
                                       CreatedDisk(metadir).cache>>
    /\ probe.fn \in LinkFunctions /\ probe.done >= 1 =>
         /\ ProbedLinks \cap DOMAIN probe.before # {} =>
              probe.exc = "JensEnvironmentsError"
         /\ ProbedLinks \cap DOMAIN probe.before = {} =>
              probe.exc = "" /\ ProbedLinks \subseteq DOMAIN links

\* _unlink_hostgroup has been called twice where the three links were there,
\* and _link_module where one of its links was there.
C18_UnlinkedTwice ==
    /\ probe.fn = "_unlink_hostgroup"
    /\ probe.done = 2
    /\ HostgroupLinks("h1", <<"a">>) \subseteq DOMAIN probe.before
    /\ HostgroupLinks("h1", <<"a">>) \cap DOMAIN links = {}


---------------------------------------------------------------------------
(* The tree of a created environment, against the path table.               *)

\* settings.ENVIRONMENTSDIR and settings.CLONEDIR, as path components.
ENVIRONMENTSDIR == << <<"var">>, <<"environments">> >>
CLONEDIR == << <<"var">>, <<"clone">> >>

RECURSIVE CommonPrefix(_, _)
CommonPrefix(p, q) ==
    IF p # <<>> /\ q # <<>> /\ Head(p) = Head(q)
    THEN 1 + CommonPrefix(Tail(p), Tail(q))
    ELSE 0

\* os.path.relpath(path, start), both absolute.
relpath(path, start) ==
    LET k == CommonPrefix(path, start)
    IN  [i \in 1..(Len(start) - k) |-> <<"..">>] \o SubSeq(path, k + 1, Len(path))

\* The path a relative link target names, from the directory `start`.
RECURSIVE Follow(_, _)
Follow(start, target) ==
    IF target = <<>> THEN start
    ELSE IF Head(target) = <<"..">>
    THEN Follow(SubSeq(start, 1, Len(start) - 1), Tail(target))
    ELSE Follow(Append(start, Head(target)), Tail(target))

\* What os.symlink is given for the link `name` of the tree, lines 217-222:
\* the target relative to the directory of the link.
SymlinkTarget(name) ==
    relpath(CLONEDIR \o links[name], Parent(ENVIRONMENTSDIR \o name))

\* The absolute path the link `name` leads to.
LeadsTo(name) == Follow(Parent(ENVIRONMENTSDIR \o name), SymlinkTarget(name))

\* The branch of the path table for an element: its override, or the default.
TableBranch(d, partition, element) ==
    refname_to_dirname(IF HasOverride(d, partition, element)
                       THEN d.overrides.parts[partition][element]
                       ELSE d.default)

\* The rows of the path table for environment n: <<link, target>>, the target
\* below the clone root.
PathTable(n, d) ==
    UNION {{ <<<<n, <<"modules">>, <<m>>>>,
               <<<<"modules">>, <<m>>, TableBranch(d, "modules", m), <<"code">>>>>>,
             <<<<n, <<"hieradata">>, <<"module_names">>, <<m>>>>,
               <<<<"modules">>, <<m>>, TableBranch(d, "modules", m), <<"data">>>>>> } :
           m \in inventory.modules}
    \cup
    UNION {{ <<<<n, <<"hostgroups">>, <<"hg_", h>>>>,
               <<<<"hostgroups">>, <<h>>, TableBranch(d, "hostgroups", h), <<"code">>>>>>,
             <<<<n, <<"hieradata">>, <<"hostgroups">>, <<h>>>>,
               <<<<"hostgroups">>, <<h>>, TableBranch(d, "hostgroups", h),
                 <<"data">>, <<"hostgroup">>>>>>,
             <<<<n, <<"hieradata">>, <<"fqdns">>, <<h>>>>,
               <<<<"hostgroups">>, <<h>>, TableBranch(d, "hostgroups", h),
                 <<"data">>, <<"fqdns">>>>>> } :
           h \in inventory.hostgroups}
    \cup
    { <<<<n, <<"site">>>>,
        <<<<"common">>, <<"site">>, TableBranch(d, "common", "site"), <<"code">>>>>> }
    \cup
    { <<<<n, <<"hieradata">>, <<artifact>>>>,
        <<<<"common">>, <<"hieradata">>, TableBranch(d, "common", "hieradata"),
          <<"data">>, <<artifact>>>>>> :
      artifact \in {"environments", "hardware", "operatingsystems", "common.yaml"} }

\* The directories of the skeleton of environment n.
Skeleton(n) ==
    { <<n>>, <<n, <<"modules">>>>, <<n, <<"hostgroups">>>>, <<n, <<"hieradata">>>>,
      <<n, <<"hieradata">>, <<"module_names">>>>,
      <<n, <<"hieradata">>, <<"hostgroups">>>>,
      <<n, <<"hieradata">>, <<"fqdns">>>> }

\* The directories and the links of the tree of n are those of the skeleton
\* and of the path table, and every link leads to the path of its row.
SkeletonAndTable(n) ==
    LET d == DefinitionOf(n)
        table == PathTable(n, d)
    IN  /\ TreeOf(Disk, n).dirs = Skeleton(n)
        /\ LinksOf(n) = {row[1] : row \in table}
        /\ \A row \in table : /\ links[row[1]] = row[2]
                              /\ LeadsTo(row[1]) = CLONEDIR \o row[2]

\* The environments created from a declaration with a default.
CreatedWithDefault == {n \in hist.created : "default" \in DefinitionOf(n).keys}

\* The claim as it is worded: the tree of an environment created without a
\* failure from a declaration with a default is the skeleton and the links of
\* the path table, and nothing else.
C19_ExactlySkeletonAndLinks ==
    \A n \in CreatedWithDefault :
        /\ SkeletonAndTable(n)
        /\ TreeOf(Disk, n).files = {}

\* C19: the tree of an environment created without a failure from a
\* declaration with a default is the skeleton, the links of the path table,
\* each leading to the clone-root path of its row at the branch resolved for
\* its element, and, when directory environments are on, the file
\* environment.conf; nothing else.
C19_TreeOfCreatedEnvironment ==
    \A n \in CreatedWithDefault :
        /\ SkeletonAndTable(n)
        /\ TreeOf(Disk, n).files =
             IF DIRECTORY_ENVIRONMENTS THEN {<<n, <<"environment.conf">>>>} ELSE {}

\* An environment is created with directory environments on, from a
\* declaration with a default and overrides and a full inventory: its tree
\* has the file environment.conf.
C19_WithConfigurationFile ==
    /\ <<"a">> \in CreatedWithDefault
    /\ metadir[FA] = "v2"
    /\ inventory = [modules |-> Modules, hostgroups |-> Hostgroups]
    /\ DIRECTORY_ENVIRONMENTS
    /\ <<<<"a">>, <<"environment.conf">>>> \in files
    /\ links[<<<<"a">>, <<"modules">>, <<"m1">>>>][3] = refname_to_dirname("rel2")
    /\ links[<<<<"a">>, <<"modules">>, <<"m2">>>>][3] = refname_to_dirname("qa")


---------------------------------------------------------------------------
(* Passes one after the other over declarations that change between them,   *)
(* no call failing for an outside reason and no kill.                       *)

InitPasses ==
    /\ metadir \in {md \in [AllFiles -> Texts \cup {ENOENT}] :
                       /\ \A f \in {FA, FB, FHyphen} : md[f] \in Takes(f) \cup {ENOENT}
                       /\ \A f \in {FTrail, FInner} : md[f] \in {"v1", ENOENT}
                       /\ md[FOther] = ENOENT}
    /\ cache = [n \in Names |-> NoFile]
    /\ dirs = {}
    /\ links = <<>>
    /\ files = {}
    /\ inventory = [modules |-> {"m1"}, hostgroups |-> Hostgroups]
    /\ repositories_deltas = [modules |-> [new |-> {"m1"}, deleted |-> {}],
                              hostgroups |-> [new |-> Hostgroups, deleted |-> {}]]
    /\ DIRECTORY_ENVIRONMENTS = FALSE
    /\ pc = "idle"
    /\ delta = NoDelta
    /\ todo = {}
    /\ lease = 0
    /\ hist = [FirstPass EXCEPT !.faults = MaxFaults]
    /\ probe = NoProbe

NextPasses ==
    \/ CalculateDelta
    \/ RenewLease
    \/ Advance
    \/ \E environment \in Names : CreateNew(environment)
    \/ \E environment \in Names : PurgeDeleted(environment)
    \/ \E environment \in Names : RecreateChanged(environment)
    \/ \E environment \in Names : RefreshNotchanged(environment)
    \/ Environment

SpecPasses == InitPasses /\ [][NextPasses]_vars

\* The environments with a root directory on the disk.
WithTree == {n \in Names : env_basepath(n) \in dirs}

\* Every pass so far has run to its end.
PassesComplete == pc = "done" /\ hist.prev.end \in {"none", "done"}

\* The environments with a cached hash are those with a root directory.
RecordsMatchTrees == Present = WithTree

\* C20: at the end of a pass, every pass so far having run to its end and no
\* call having failed for an outside reason, the environments with a cached
\* hash are those with a root directory, and each of them is declared and has
\* a name made of word characters only.
C20_RecordTreeConsistency ==
    PassesComplete =>
        /\ RecordsMatchTrees
        /\ \A n \in Present : n \in Declared /\ OnlyWordChars(n)

\* The same, the validity of the names left out.
RecordTreeConsistencyButNames ==
    PassesComplete =>
        /\ RecordsMatchTrees
        /\ \A n \in Present : n \in Declared


---------------------------------------------------------------------------
(* The refresh of a notchanged environment, against creating it anew.       *)

\* This pass and the pass before ran to their end and nothing failed in them.
FailureFree ==
    /\ pc = "done"
    /\ hist.passes >= 2
    /\ hist.injected = 0 /\ hist.failed = {}
    /\ hist.prev.end = "done"
    /\ hist.prev.injected = 0 /\ hist.prev.failed = {}

\* The default of the declaration, when it has the key, is a branch name.
DefaultIsBranch(d) == "default" \in d.keys => d.default # None

\* The elements of the partition linked in n are those
\* _create_new_environment links for the declaration of n and the inventory.
AsRebuilt(n, partition) ==
    LET wanted == Selected(DefinitionOf(n), partition, inventory[partition])
    IN  /\ FullyLinked(n, partition) = wanted
        /\ SomeLink(n, partition) = wanted

RefreshEqualsRebuildWithDefault ==
    FailureFree =>
        \A n \in delta.notchanged :
            HasDefault(DefinitionOf(n)) =>
                \A partition \in {"modules", "hostgroups"} : AsRebuilt(n, partition)

\* An environment with a default has been refreshed with a module new upstream.
RefreshedWithDefault ==
    /\ FailureFree
    /\ \E n \in delta.notchanged :
         /\ HasDefault(DefinitionOf(n))
         /\ UpstreamNew("modules") \cap FullyLinked(n, "modules") # {}


---------------------------------------------------------------------------
(* Whether a declaration has a default: _create_new_environment against     *)
(* _refresh_notchanged_environments.                                        *)

\* _create_new_environment links the whole of any inventory for d.
LinksWholeInventory(d) ==
    /\ \A known \in SUBSET Modules : Selected(d, "modules", known) = known
    /\ \A known \in SUBSET Hostgroups : Selected(d, "hostgroups", known) = known

\* The elements new upstream in this pass, a partition with each.
NewUpstream ==
    {<<p, x>> : p \in {"modules"}, x \in UpstreamNew("modules")}
    \cup {<<p, x>> : p \in {"hostgroups"}, x \in UpstreamNew("hostgroups")}

\* The refresh of n has linked every element new upstream; it has linked none.
LinkedTheNew(n) == \A e \in NewUpstream : e[2] \in FullyLinked(n, e[1])
SkippedTheNew(n) == \A e \in NewUpstream : e[2] \notin SomeLink(n, e[1])

\* The two modes agree for n.
ModesAgree(n) ==
    LET d == DefinitionOf(n)
    IN  /\ LinksWholeInventory(d) <=> LinkedTheNew(n)
        /\ ~LinksWholeInventory(d) <=> SkippedTheNew(n)

\* C22: at the end of a failure-free pass in which elements were new
\* upstream, for every notchanged environment, _create_new_environment links
\* the whole inventory for its declaration exactly when the refresh has
\* linked the new elements, and keeps to the override keys exactly when the
\* refresh has linked none; a declaration with `default:` null included.
C22_SameNotionOfDefault ==
    FailureFree /\ NewUpstream # {} =>
        \A n \in delta.notchanged : ModesAgree(n)

\* The same, the declarations with `default:` null left out.
SameNotionForBranchDefaults ==
    FailureFree /\ NewUpstream # {} =>
        \A n \in delta.notchanged :
            DefaultIsBranch(DefinitionOf(n)) => ModesAgree(n)

====
